---- MODULE Spec2Model ----
(***************************************************************************)
(* Model of heartpy/visualizeutils.py: the segment batch driver            *)
(* (segment_plotter), the signal plot (plotter), the report formatter      *)
(* (report), and the figures and bands of plot_poincare, plot_breathing    *)
(* and plot_psd.  The trigonometry of rotate_vec is not modelled.          *)
(*                                                                         *)
(* Text is a sequence of one-character strings.  A float is the exact      *)
(* rational <<num, den>> with den > 0; the values used are either dyadic   *)
(* (exact as a binary float) or far from a rounding tie, so that rounding  *)
(* the rational half-to-even is what the float formatting does.            *)
(***************************************************************************)
EXTENDS Integers, Sequences, FiniteSets, TLC

\* ------------------------------------------------------------------ bounds
\* Largest number of segments of a working-data record.
MaxSeg == 5
\* Largest number of metrics in a measures record.
MaxMetrics == 2
\* Largest number of elements of a rejected_segments sequence.
MaxRej == 3
\* Largest number of removed beats and of RR intervals.
MaxBeats == 2

\* ------------------------------------------------------------- text helpers
Digit(d) == <<"0","1","2","3","4","5","6","7","8","9">>[d + 1]

DigitChars == {"0","1","2","3","4","5","6","7","8","9"}

Abs(n) == IF n < 0 THEN -n ELSE n

RECURSIVE Pow10(_)
Pow10(k) == IF k = 0 THEN 1 ELSE 10 * Pow10(k - 1)

\* The n low decimal digits of m, most significant first.
RECURSIVE DigitsOf(_, _)
DigitsOf(m, n) == IF n = 0 THEN << >> ELSE DigitsOf(m \div 10, n - 1) \o <<Digit(m % 10)>>

\* '%i' of a non-negative integer.
RECURSIVE IntChars(_)
IntChars(n) == IF n < 10 THEN <<Digit(n)>> ELSE IntChars(n \div 10) \o <<Digit(n % 10)>>

Repeat(c, n) == [k \in 1..n |-> c]

\* '{:<w}': left-aligned in a field of width w, never truncated.
PadRight(s, w) == IF Len(s) >= w THEN s ELSE s \o Repeat(" ", w - Len(s))

Lower == <<"a","b","c","d","e","f","g","h","i","j","k","l","m",
           "n","o","p","q","r","s","t","u","v","w","x","y","z">>

UpperOf == <<"A","B","C","D","E","F","G","H","I","J","K","L","M",
             "N","O","P","Q","R","S","T","U","V","W","X","Y","Z">>

\* str.upper
Upper(s) ==
    [k \in 1..Len(s) |->
        IF \E j \in 1..Len(Lower) : Lower[j] = s[k]
        THEN UpperOf[CHOOSE j \in 1..Len(Lower) : Lower[j] = s[k]]
        ELSE s[k]]

\* ------------------------------------------------- float formatting ('g')
\* a / den >= 10^e, for a >= 0, den > 0.
GeqPow(a, den, e) == IF e >= 0 THEN a >= Pow10(e) * den ELSE a * Pow10(-e) >= den

\* The decimal exponent of a / den, a > 0.
Exp10(a, den) == CHOOSE e \in -5..5 : GeqPow(a, den, e) /\ ~GeqPow(a, den, e + 1)

\* <<quotient, remainder, divisor>> of a * 10^k by den.
RECURSIVE ScaledDiv(_, _, _)
ScaledDiv(a, den, k) ==
    IF k < 0 THEN <<a \div (den * Pow10(-k)), a % (den * Pow10(-k)), den * Pow10(-k)>>
    ELSE IF k = 0 THEN <<a \div den, a % den, den>>
    ELSE LET p == ScaledDiv(a, den, k - 1)
         IN  <<p[1] * 10 + (p[2] * 10) \div den, (p[2] * 10) % den, den>>

\* a * 10^k / den rounded to the nearest integer, ties to even.
RoundHalfEven(a, den, k) ==
    LET p == ScaledDiv(a, den, k)
    IN  IF 2 * p[2] > p[3] \/ (2 * p[2] = p[3] /\ p[1] % 2 = 1) THEN p[1] + 1 ELSE p[1]

\* The unsigned text of |v| under '#.<prec>g': prec significant digits, the
\* trailing zeros and the decimal point kept.
FormatAbsG(a, den, prec) ==
    IF a = 0 THEN <<"0", ".">> \o Repeat("0", prec - 1)
    ELSE
    LET e0 == Exp10(a, den)
        m0 == RoundHalfEven(a, den, prec - 1 - e0)
        e  == IF m0 = Pow10(prec) THEN e0 + 1 ELSE e0
        m  == IF m0 = Pow10(prec) THEN Pow10(prec - 1) ELSE m0
        ds == DigitsOf(m, prec)
    IN  IF e >= -4 /\ e < prec
        THEN IF e >= 0
             THEN SubSeq(ds, 1, e + 1) \o <<".">> \o SubSeq(ds, e + 2, prec)
             ELSE <<"0", ".">> \o Repeat("0", -e - 1) \o ds
        ELSE <<ds[1], ".">> \o SubSeq(ds, 2, prec)
             \o <<"e", IF e < 0 THEN "-" ELSE "+">> \o DigitsOf(Abs(e), 2)

\* '{:<sign>#.<prec>g}' of the number v; sign is "-" (the default: only a
\* negative number is signed) or " " (a space before a non-negative number).
FormatG(v, prec, sign) ==
    (IF v[1] < 0 THEN <<"-">> ELSE IF sign = " " THEN <<" ">> ELSE << >>)
    \o FormatAbsG(Abs(v[1]), v[2], prec)

\* ------------------------------------------------------------ the state
VARIABLES
    call,          \* the function called, by its name
    args,          \* its keyword arguments
    working_data,  \* the working_data dict (arrays are kept as their lengths)
    measures,      \* the measures dict, its items <<key, value>> in key order
    pc,            \* the position in the called function
    err,           \* the exception that ended the call, or "none"
    path,          \* segment_plotter: the local path
    end,           \* segment_plotter: the local end
    it,            \* segment_plotter: what is left of range(start, end, step)
    filenum,       \* segment_plotter: the file counter
    used,          \* the segment indices used to subscript the per-segment arrays
    figures,       \* the number of open pyplot figures
    bands,         \* the axvspan bands drawn, in order
    result,        \* plotter: what the call returned
    dirs,          \* the directories that exist
    images,        \* the names of the image files written, in order
    out_str,       \* report: the lines of out_str
    stdout,        \* the lines printed
    outfh          \* the content of the file outfile names, None while it is absent

vars == <<call, args, working_data, measures, pc, err, path, end, it, filenum,
          used, figures, bands, result, dirs, images, out_str, stdout, outfh>>

\* An optional value: None is the empty tuple, a present value x is <<x>>.
NoneValue == << >>

Sep == <<"/">>

OutDir == <<"o","u","t">>

\* A value is a number <<num, den>>; the empty tuple stands for a value that
\* is no number (None, or a scalar where a sequence is expected).
IsNumber(v) == Len(v) = 2

\* key in d, and d[key], for a dict kept as its items.
HasKey(d, key) == \E j \in 1..Len(d) : d[j][1] = key

Get(d, key) == d[CHOOSE j \in 1..Len(d) : d[j][1] = key][2]

\* seq[i] of Python: i counts from the end when negative, and raises
\* IndexError outside -len .. len-1.
InRange(i, n) == -n <= i /\ i < n

Item(seq, i) == IF i >= 0 THEN seq[i + 1] ELSE seq[Len(seq) + i + 1]

BpmKey == <<"b","p","m">>

\* ------------------------------------------------- plotter, lines 101-107
\* The bands of "for segment in ...: ax.axvspan(segment[0], segment[1], ...)":
\* an element with fewer than two entries raises at its subscript, which ends
\* the loop with the bands of the elements before it already drawn.
RECURSIVE SpanLoop(_)
SpanLoop(items) ==
    IF items = << >> THEN << >>
    ELSE IF Len(Head(items)) < 2 THEN << >>
    ELSE <<SubSeq(Head(items), 1, 2)>> \o SpanLoop(Tail(items))

\* The try block: a missing key, an unsized value and a malformed element all
\* end in "except: pass".
SpanBands(wd) ==
    IF "rejected_segments" \notin DOMAIN wd THEN << >>
    ELSE IF ~wd.rejected_segments.sized THEN << >>
    ELSE IF Len(wd.rejected_segments.items) >= 1
         THEN SpanLoop(wd.rejected_segments.items)
         ELSE << >>

\* The keys plotter subscripts working_data with (lines 81-87, 92) when
\* moving_average is left False.
PlotterKeys == {"sample_rate", "hr", "peaklist", "ybeat", "removed_beats", "removed_beats_y"}

\* What a call of plotter does: a missing working_data key raises KeyError at
\* lines 81-87, before plt.subplots opens the figure (line 89); the label
\* 'BPM:%.2f' % measures['bpm'] of line 98 raises KeyError without the key and
\* TypeError for a value that is no number, with the figure open and before
\* the try block; otherwise the bands are drawn on the figure.
PlotterOutcome(wd, m) ==
    IF ~(PlotterKeys \subseteq DOMAIN wd)
    THEN [err |-> "KeyError", figs |-> 0, bands |-> << >>]
    ELSE IF ~HasKey(m, BpmKey)
    THEN [err |-> "KeyError", figs |-> 1, bands |-> << >>]
    ELSE IF ~IsNumber(Get(m, BpmKey))
    THEN [err |-> "TypeError", figs |-> 1, bands |-> << >>]
    ELSE [err |-> "none", figs |-> 1, bands |-> SpanBands(wd)]

\* --------------------------------------------- segment_plotter, 162-202
\* A step check that lets step = S through.
StepOkLoose(step, n) == 0 < step /\ step <= n

\* Line 163: 0 < step < len(working_data['hr']).
StepOk(step, n) == 0 < step /\ step < n

\* An end check that is off by one.
EndOkLoose(e, n) == e <= n + 1

\* Line 170: end <= len(working_data['hr']).
EndOk(e, n) == e <= n

\* "not (path.endswith('/') or path.endswith('\\')) and len(path) > 0"
NeedsSlash(p) == ~(Len(p) > 0 /\ p[Len(p)] \in {"/", "\\"}) /\ Len(p) > 0

\* The directory part of a file name that starts with p (POSIX: up to the last
\* "/", a backslash is an ordinary character), without its trailing slashes.
RECURSIVE StripSlashes(_)
StripSlashes(p) ==
    IF p # << >> /\ p[Len(p)] = "/" THEN StripSlashes(SubSeq(p, 1, Len(p) - 1)) ELSE p

RECURSIVE DirPart(_)
DirPart(p) ==
    IF p = << >> THEN << >>
    ELSE IF p[Len(p)] = "/" THEN StripSlashes(p)
    ELSE DirPart(SubSeq(p, 1, Len(p) - 1))

\* os.path.isdir of the directory part; the working directory always exists.
IsDir(p, ds) == DirPart(p) = << >> \/ DirPart(p) \in ds

\* range(start, stop, step) for step > 0, as the sequence of its values.
RangeSeq(start, stop, step) ==
    [k \in 1..(IF stop > start THEN (stop - start + step - 1) \div step ELSE 0)
        |-> start + (k - 1) * step]

\* '%s%i.png' % (path, filenum)
ImageName(p, n) == p \o IntChars(n) \o <<".","p","n","g">>

\* The attributes of the matplotlib Figure plotter returns that the driver
\* uses; Figure has savefig and no close.
FigureHas(attr) == attr \in {"savefig", "show"}

\* The keys lines 185-190 copy into wd_segment.
SegmentKeys == {"peaklist", "ybeat", "removed_beats", "removed_beats_y", "hr", "rolling_mean"}

\* wd_segment of the iteration for index i (each array is kept as a
\* placeholder): lines 192-195 add working_data['rejected_segments'][i], and
\* leave the key out when the key is missing or the subscript raises.
SegmentView(wd, i) ==
    IF "rejected_segments" \in DOMAIN wd /\ InRange(i, Len(wd.rejected_segments))
    THEN [k \in SegmentKeys |-> << >>]
         @@ ("rejected_segments" :> Item(wd.rejected_segments, i))
    ELSE [k \in SegmentKeys |-> << >>]

\* m_segment of line 191, where measures['bpm'][i] exists.
SegmentMeasures(m, i) == <<(<<BpmKey, Item(Get(m, BpmKey), i)>>)>>

SegCheck ==
    /\ call = "segment_plotter" /\ pc = "check"
    /\ IF ~StepOk(args.step, working_data.nseg)
       THEN /\ pc' = "failed" /\ err' = "AssertionError" /\ end' = end
       ELSE IF end = NoneValue
       THEN /\ end' = <<working_data.nseg>> /\ pc' = "path" /\ err' = err
       ELSE IF ~EndOk(end[1], working_data.nseg)
       THEN /\ pc' = "failed" /\ err' = "AssertionError" /\ end' = end
       ELSE /\ end' = end /\ pc' = "path" /\ err' = err
    /\ UNCHANGED <<call, args, working_data, measures, path, it, filenum, used,
                   figures, bands, result, dirs, images, out_str, stdout, outfh>>

SegPath ==
    /\ call = "segment_plotter" /\ pc = "path"
    /\ IF NeedsSlash(path)
       THEN /\ path' = path \o Sep
            /\ dirs' = IF IsDir(path \o Sep, dirs) THEN dirs
                       ELSE dirs \cup {DirPart(path \o Sep)}
       ELSE UNCHANGED <<path, dirs>>
    /\ filenum' = 0
    /\ it' = RangeSeq(args.start, end[1], args.step)
    /\ pc' = "loop"
    /\ UNCHANGED <<call, args, working_data, measures, err, end, used, figures,
                   bands, result, images, out_str, stdout, outfh>>

\* One pass of the loop body for i = Head(it).
SegIter ==
    /\ call = "segment_plotter" /\ pc = "loop" /\ it # << >>
    /\ LET i == Head(it)
           n == working_data.nseg
           p == PlotterOutcome(SegmentView(working_data, i), SegmentMeasures(measures, i))
       IN
       /\ used' = Append(used, i)
       /\ IF ~InRange(i, n)
          THEN \* working_data['peaklist'][i] raises (line 185)
               /\ pc' = "failed" /\ err' = "IndexError"
               /\ UNCHANGED <<it, filenum, figures, bands, images>>
          ELSE IF ~HasKey(measures, BpmKey)
          THEN \* measures['bpm'] raises (line 191)
               /\ pc' = "failed" /\ err' = "KeyError"
               /\ UNCHANGED <<it, filenum, figures, bands, images>>
          ELSE IF ~InRange(i, Len(Get(measures, BpmKey)))
          THEN \* measures['bpm'][i] raises (line 191)
               /\ pc' = "failed" /\ err' = "IndexError"
               /\ UNCHANGED <<it, filenum, figures, bands, images>>
          ELSE IF p.err # "none"
          THEN \* plt.figure opened a figure, plotter raises
               /\ figures' = figures + 1 + p.figs
               /\ bands' = bands \o p.bands
               /\ pc' = "failed" /\ err' = p.err
               /\ UNCHANGED <<it, filenum, images>>
          ELSE IF ~IsDir(path, dirs)
          THEN \* savefig cannot open the file
               /\ figures' = figures + 1 + p.figs
               /\ bands' = bands \o p.bands
               /\ pc' = "failed" /\ err' = "FileNotFoundError"
               /\ UNCHANGED <<it, filenum, images>>
          ELSE IF ~FigureHas("close")
          THEN \* the file is written, p.close() raises
               /\ figures' = figures + 1 + p.figs
               /\ bands' = bands \o p.bands
               /\ images' = Append(images, ImageName(path, filenum))
               /\ pc' = "failed" /\ err' = "AttributeError"
               /\ UNCHANGED <<it, filenum>>
          ELSE /\ figures' = figures + 1
               /\ bands' = bands \o p.bands
               /\ images' = Append(images, ImageName(path, filenum))
               /\ filenum' = filenum + 1
               /\ it' = Tail(it)
               /\ UNCHANGED <<pc, err>>
    /\ UNCHANGED <<call, args, working_data, measures, path, end, result, dirs,
                   out_str, stdout, outfh>>

SegReturn ==
    /\ call = "segment_plotter" /\ pc = "loop" /\ it = << >>
    /\ pc' = "done"
    /\ UNCHANGED <<call, args, working_data, measures, err, path, end, it, filenum,
                   used, figures, bands, result, dirs, images, out_str, stdout, outfh>>

\* ------------------------------------------------------- plotter, 19-114
Plotter ==
    /\ call = "plotter" /\ pc = "plot"
    /\ LET p == PlotterOutcome(working_data, measures)
       IN  /\ figures' = figures + p.figs
           /\ bands' = p.bands
           /\ err' = p.err
           /\ pc' = IF p.err = "none" THEN "done" ELSE "failed"
           /\ result' = IF p.err = "none" /\ ~args.show THEN "fig" ELSE "None"
    /\ UNCHANGED <<call, args, working_data, measures, path, end, it, filenum,
                   used, dirs, images, out_str, stdout, outfh>>

\* ------------------------------------------------ plot_poincare, 205-293
PoincareKey == <<"s","d","1">>

PoincareKey2 == <<"s","d","2">>

\* The keys are read at lines 246-249, before plt.subplots (line 252).
PoincareOutcome(wd, m) ==
    IF "poincare" \notin DOMAIN wd \/ ~HasKey(m, PoincareKey) \/ ~HasKey(m, PoincareKey2)
    THEN [err |-> "KeyError", figs |-> 0, bands |-> << >>]
    ELSE [err |-> "none", figs |-> 1, bands |-> << >>]

\* ----------------------------------------------- plot_breathing, 343-394
\* plt.subplots (line 377) comes first, the keys are read at lines 379-383.
BreathingKeys == {"breathing_signal", "breathing_frq", "breathing_psd"}

BreathingOutcome(wd, m) ==
    IF ~(BreathingKeys \subseteq DOMAIN wd)
    THEN [err |-> "KeyError", figs |-> 1, bands |-> << >>]
    ELSE [err |-> "none", figs |-> 1, bands |-> << >>]

\* ----------------------------------------------------- plot_psd, 397-428
\* The three regions of lines 414-416: 0.0033-0.04, 0.04-0.15, 0.15-0.40.
PsdBands ==
    << <<(<<33, 10000>>), (<<4, 100>>)>>,
       <<(<<4, 100>>), (<<15, 100>>)>>,
       <<(<<15, 100>>), (<<40, 100>>)>> >>

\* plt.subplots (line 402) comes first, the keys are read at line 411.
PsdOutcome(wd, m) ==
    IF ~({"frq", "psd"} \subseteq DOMAIN wd)
    THEN [err |-> "KeyError", figs |-> 1, bands |-> << >>]
    ELSE [err |-> "none", figs |-> 1, bands |-> PsdBands]

\* The end of a plot function: the outcome p is applied, and the figure is
\* shown (None is returned) or returned.
PlotEnds(p) ==
    /\ figures' = figures + p.figs
    /\ bands' = p.bands
    /\ err' = p.err
    /\ pc' = IF p.err = "none" THEN "done" ELSE "failed"
    /\ result' = IF p.err = "none" /\ ~args.show THEN "fig" ELSE "None"
    /\ UNCHANGED <<call, args, working_data, measures, path, end, it, filenum,
                   used, dirs, images, out_str, stdout, outfh>>

PlotPoincare ==
    call = "plot_poincare" /\ pc = "plot" /\ PlotEnds(PoincareOutcome(working_data, measures))

PlotBreathing ==
    call = "plot_breathing" /\ pc = "plot" /\ PlotEnds(BreathingOutcome(working_data, measures))

PlotPsd ==
    call = "plot_psd" /\ pc = "plot" /\ PlotEnds(PsdOutcome(working_data, measures))

\* -------------------------------------------------------- report, 431-524
label_formatter(m) ==
    IF m = <<"i","b","i">> THEN <<"I","B","I"," ","(","m","s",")">>
    ELSE IF m = <<"s","d","n","n">> THEN <<"S","D","N","N"," ","(","m","s",")">>
    ELSE IF m = <<"s","d","s","d">> THEN <<"S","D","S","D"," ","(","m","s",")">>
    ELSE IF m = <<"r","m","s","s","d">> THEN <<"R","M","S","S","D"," ","(","m","s",")">>
    ELSE IF m = <<"p","n","n","2","0">> THEN <<"p","N","N","2","0">>
    ELSE IF m = <<"p","n","n","5","0">> THEN <<"p","N","N","5","0">>
    ELSE IF m = <<"h","r","_","m","a","d">> THEN <<"H","R","_","M","A","D"," ","(","m","s",")">>
    ELSE IF m = <<"s","d","1">> THEN <<"S","D","1"," ","(","m","s",")">>
    ELSE IF m = <<"s","d","2">> THEN <<"S","D","2"," ","(","m","s",")">>
    ELSE IF m = <<"s">> THEN <<"S"," ","(","m","s","^","2",")">>
    ELSE IF m = <<"v","l","f">> THEN <<"V","L","F"," ","(","m","s","^","2",")">>
    ELSE IF m = <<"l","f">> THEN <<"L","F"," ","(","m","s","^","2",")">>
    ELSE IF m = <<"h","f">> THEN <<"H","F"," ","(","m","s","^","2",")">>
    ELSE IF m = <<"p","_","t","o","t","a","l">> THEN <<"P","_","t","o","t","a","l"," ","(","m","s","^","2",")">>
    ELSE IF m = <<"v","l","f","_","p","e","r","c">> THEN <<"V","L","F"," ","%">>
    ELSE IF m = <<"l","f","_","p","e","r","c">> THEN <<"L","F"," ","%">>
    ELSE IF m = <<"h","f","_","p","e","r","c">> THEN <<"H","F"," ","%">>
    ELSE IF m = <<"l","f","_","n","u">> THEN <<"L","F"," ","(","n","u",")">>
    ELSE IF m = <<"h","f","_","n","u">> THEN <<"H","F"," ","(","n","u",")">>
    ELSE Upper(m)

\* The header format: '{},{}\n' or '{:<14} {:<15}\n' (the newline ends the line).
HeaderLine(csvfile, a, b) ==
    IF csvfile THEN a \o <<",">> \o b
    ELSE PadRight(a, 14) \o <<" ">> \o PadRight(b, 15)

\* The table-line format: '{},{:#.9g}\n' or '{:<14} {:< #15.3g}\n'.
TableLine(csvfile, label, v) ==
    IF csvfile THEN label \o <<",">> \o FormatG(v, 9, "-")
    ELSE PadRight(label, 14) \o <<" ">> \o PadRight(FormatG(v, 3, " "), 15)

\* The info format: '{},{:#0.3g}\n' or '{:<14} {:< #15.3g}\n'.
InfoLine(csvfile, label, v) ==
    IF csvfile THEN label \o <<",">> \o FormatG(v, 3, "-")
    ELSE PadRight(label, 14) \o <<" ">> \o PadRight(FormatG(v, 3, " "), 15)

\* A division that yields 0 for an empty RR_list instead of raising.
PcRmbeatsGuarded(n, d) == IF d = 0 THEN <<(<<0, 1>>)>> ELSE <<(<<100 * n, d>>)>>

\* 100*n_rmbeats/len(working_data['RR_list']): None stands for the
\* ZeroDivisionError.
PcRmbeats(n, d) == IF d = 0 THEN NoneValue ELSE <<(<<100 * n, d>>)>>

\* out_str when every format call succeeds, as its lines.
ReportLines(csvfile, m, wd) ==
    <<HeaderLine(csvfile, <<"M","e","a","s","u","r","e">>, <<"V","a","l","u","e">>),
      HeaderLine(csvfile, <<"-","-","-","-","-","-","-","-","-","-","-">>,
                          <<"-","-","-","-","-","-","-","-","-">>)>>
    \o [k \in 1..Len(m) |-> TableLine(csvfile, label_formatter(m[k][1]), m[k][2])]
    \o (IF csvfile THEN << >> ELSE << << >> >>)
    \o <<InfoLine(csvfile, <<"B","e","s","t"," ","M","A"," ","(","%",")">>, wd.best),
         InfoLine(csvfile, <<"E","x","c","l","."," ","p","e","a","k","s">>,
                  <<wd.removed_beats, 1>>),
         InfoLine(csvfile, <<"E","x","c","l","."," ","%">>,
                  PcRmbeats(wd.removed_beats, wd.RR_list)[1])>>

\* Lines 441-517: out_str is built in memory.
ReportFormat ==
    /\ call = "report" /\ pc = "format"
    /\ IF \E k \in 1..Len(measures) : ~IsNumber(measures[k][2])
       THEN /\ pc' = "failed" /\ err' = "TypeError" /\ out_str' = out_str
       ELSE IF PcRmbeats(working_data.removed_beats, working_data.RR_list) = NoneValue
       THEN /\ pc' = "failed" /\ err' = "ZeroDivisionError" /\ out_str' = out_str
       ELSE /\ out_str' = ReportLines(args.csvfile, measures, working_data)
            /\ pc' = "output" /\ err' = err
    /\ UNCHANGED <<call, args, working_data, measures, path, end, it, filenum, used,
                   figures, bands, result, dirs, images, stdout, outfh>>

\* Lines 519-524: print(out_str), or open(outfile, 'w') and write.
ReportOutput ==
    /\ call = "report" /\ pc = "output"
    /\ IF args.outfile = NoneValue
       THEN /\ stdout' = out_str \o << << >> >>
            /\ outfh' = outfh
       ELSE /\ outfh' = <<out_str>>
            /\ stdout' = stdout
    /\ pc' = "done"
    /\ UNCHANGED <<call, args, working_data, measures, err, path, end, it, filenum,
                   used, figures, bands, result, dirs, images, out_str>>

\* ------------------------------------------------------------- the inputs
Paths == {<< >>, OutDir, OutDir \o Sep, OutDir \o <<"\\">>}

\* The rejected_segments elements: two well-formed intervals and a malformed one.
RejElements == {<<1, 2>>, <<4, 6>>, <<3>>}

RejValues ==
    {[sized |-> FALSE, items |-> << >>]}
    \cup {[sized |-> TRUE, items |-> s] :
            s \in UNION {[1..n -> RejElements] : n \in 0..MaxRej}}

MetricKeys == {BpmKey, <<"s","d","n","n">>, <<"h","f","_","p","e","r","c">>}

\* 72.375, -1.125, 0.0, 1234.5 and a value that is no number.
MetricValues == {<<579, 8>>, <<-9, 8>>, <<0, 1>>, <<2469, 2>>, NoneValue}

\* The measures dicts: keys are distinct, in insertion order.
MeasuresDicts ==
    {m \in UNION {[1..n -> MetricKeys \X MetricValues] : n \in 0..MaxMetrics} :
        \A j, k \in 1..Len(m) : j # k => m[j][1] # m[k][1]}

\* An output file that exists already, holding the one line "old".
OldContent == << << <<"o","l","d">> >> >>

InitCommon ==
    /\ err = "none" /\ it = << >>
    /\ filenum = 0 /\ used = << >> /\ figures = 0 /\ bands = << >> /\ result = "None"
    /\ images = << >> /\ out_str = << >> /\ stdout = << >>

\* One rejected interval, (1, 2), as the rejected_segments of one segment.
OneBand == [sized |-> TRUE, items |-> <<(<<1, 2>>)>>]

\* The records of a batch of n segments: measures['bpm'] with an entry per
\* segment, with no entry, or missing; rejected_segments missing, with an
\* entry per segment, or with a single entry.
BatchRecords(n) ==
    LET bpm == <<(<<BpmKey, [k \in 1..n |-> <<60, 1>>]>>)>>
    IN  {<<[nseg |-> n], bpm>>,
         <<[nseg |-> n, rejected_segments |-> [k \in 1..n |-> OneBand]], bpm>>,
         <<[nseg |-> n, rejected_segments |-> <<OneBand>>], bpm>>,
         <<[nseg |-> n], << >> >>,
         <<[nseg |-> n], <<(<<BpmKey, << >> >>)>> >>}

InitSegmentPlotter ==
    /\ call = "segment_plotter" /\ pc = "check"
    /\ \E n \in 0..MaxSeg : \E r \in BatchRecords(n) :
          working_data = r[1] /\ measures = r[2]
    /\ args \in [start : -(MaxSeg + 1)..MaxSeg,
                 end : {NoneValue} \cup {<<e>> : e \in 0..(MaxSeg + 1)},
                 step : -1..MaxSeg,
                 path : Paths]
    /\ path = args.path /\ end = args.end
    /\ dirs \in {{}, {OutDir}}
    /\ outfh = NoneValue
    /\ InitCommon

InitPlotter ==
    /\ call = "plotter" /\ pc = "plot"
    /\ \E keys \in {PlotterKeys, PlotterKeys \ {"sample_rate"}} :
          working_data \in
              {[k \in keys |-> << >>]}
              \cup {[k \in keys |-> << >>] @@ ("rejected_segments" :> r) : r \in RejValues}
    /\ measures \in {<<(<<BpmKey, <<579, 8>> >>)>>, <<(<<BpmKey, NoneValue>>)>>, << >>}
    /\ args \in [show : BOOLEAN]
    /\ path = << >> /\ end = NoneValue
    /\ dirs = {} /\ outfh = NoneValue
    /\ InitCommon

\* The other plot functions: with every key they read, or with one missing.
InitOtherPlots ==
    /\ pc = "plot"
    /\ \/ /\ call = "plot_poincare"
          /\ working_data \in {[poincare |-> [x_plus |-> 2, x_minus |-> 2]], [best |-> <<30, 1>>]}
          /\ measures \in {<<(<<PoincareKey, <<10, 1>> >>), (<<PoincareKey2, <<20, 1>> >>)>>,
                           <<(<<PoincareKey, <<10, 1>> >>)>>}
       \/ /\ call = "plot_breathing"
          /\ working_data \in {[k \in BreathingKeys |-> << >>],
                               [k \in BreathingKeys \ {"breathing_psd"} |-> << >>]}
          /\ measures = << >>
       \/ /\ call = "plot_psd"
          /\ working_data \in {[frq |-> << >>, psd |-> << >>], [frq |-> << >>]}
          /\ measures = << >>
    /\ args \in [show : BOOLEAN]
    /\ path = << >> /\ end = NoneValue
    /\ dirs = {} /\ outfh = NoneValue
    /\ InitCommon

InitReport ==
    /\ call = "report" /\ pc = "format"
    /\ working_data \in [best : {<<30, 1>>}, removed_beats : 0..MaxBeats, RR_list : 0..MaxBeats]
    /\ measures \in MeasuresDicts
    /\ args \in [outfile : {NoneValue, <<"r",".","t","x","t">>}, csvfile : BOOLEAN]
    /\ outfh \in (IF args.outfile = NoneValue THEN {NoneValue} ELSE {NoneValue, OldContent})
    /\ path = << >> /\ end = NoneValue
    /\ dirs = {}
    /\ InitCommon

Init == InitSegmentPlotter \/ InitPlotter \/ InitOtherPlots \/ InitReport

Next ==
    \/ SegCheck \/ SegPath \/ SegIter \/ SegReturn
    \/ Plotter \/ PlotPoincare \/ PlotBreathing \/ PlotPsd
    \/ ReportFormat \/ ReportOutput

Spec == Init /\ [][Next]_vars

\* ------------------------------------------------- notions the claims use
Finished == pc \in {"done", "failed"}

\* The arguments break a precondition of segment_plotter: step <= 0,
\* step >= S, or a given end > S.
Violates(a, n) == a.step <= 0 \/ a.step >= n \/ (a.end # NoneValue /\ a.end[1] > n)

\* The end the loop runs to: the given one, or S.
EndOf(a, n) == IF a.end = NoneValue THEN n ELSE a.end[1]

\* The image names of counters 0 .. k-1 under path p.
Numbered(p, k) == [j \in 1..k |-> ImageName(p, j - 1)]

\* A line split at its commas.
RECURSIVE Fields(_)
Fields(line) ==
    IF \E k \in 1..Len(line) : line[k] = ","
    THEN LET c == CHOOSE k \in 1..Len(line) : line[k] = "," /\ \A j \in 1..(k - 1) : line[j] # ","
         IN  <<SubSeq(line, 1, c - 1)>> \o Fields(SubSeq(line, c + 1, Len(line)))
    ELSE <<line>>

\* The text reads as a decimal number: digits, with sign, point and exponent marks.
IsNumericText(s) ==
    /\ \E k \in 1..Len(s) : s[k] \in DigitChars
    /\ \A k \in 1..Len(s) : s[k] \in DigitChars \cup {".", "-", "+", "e"}

\* The digits of the mantissa of a number text, in order.
RECURSIVE Mantissa(_)
Mantissa(s) ==
    IF s = << >> \/ Head(s) = "e" THEN << >>
    ELSE (IF Head(s) \in DigitChars THEN <<Head(s)>> ELSE << >>) \o Mantissa(Tail(s))

RECURSIVE DropZeros(_)
DropZeros(ds) == IF ds # << >> /\ Head(ds) = "0" THEN DropZeros(Tail(ds)) ELSE ds

\* The number of significant digits a number text shows (a zero shows all its digits).
SigDigits(s) ==
    IF DropZeros(Mantissa(s)) = << >> THEN Len(Mantissa(s)) ELSE Len(DropZeros(Mantissa(s)))

\* The value text of the row of metric k (row k + 2 of out_str): after the
\* comma in CSV mode, after the 14-wide label column and its space otherwise.
MetricValueText(k) ==
    IF args.csvfile THEN Fields(out_str[k + 2])[2]
    ELSE SubSeq(out_str[k + 2], 16, Len(out_str[k + 2]))

\* rejected_segments is present but not a sequence of well-formed intervals.
Malformed(wd) ==
    /\ "rejected_segments" \in DOMAIN wd
    /\ \/ ~wd.rejected_segments.sized
       \/ \E k \in 1..Len(wd.rejected_segments.items) : Len(wd.rejected_segments.items[k]) < 2

\* The batch records are whole: measures['bpm'] has an entry per segment.
WholeBatch ==
    HasKey(measures, BpmKey) /\ Len(Get(measures, BpmKey)) = working_data.nseg

\* ------------------------------------------------------------ the claims

\* C1: a record the step check accepts (S >= 2 segments) plotted with start=0,
\* end=None, step=1 completes without error and leaves exactly the S image
\* files of counters 0 .. S-1.  (The code writes none: plotter raises KeyError
\* on the segment view, which has no sample_rate.)
C1_AllSegmentsWritten ==
    (/\ call = "segment_plotter" /\ Finished /\ WholeBatch
     /\ working_data.nseg >= 2
     /\ args.start = 0 /\ args.end = NoneValue /\ args.step = 1)
    => /\ pc = "done" /\ err = "none"
       /\ images = Numbered(path, working_data.nseg)

\* C2: a call whose arguments break a precondition fails with the assertion
\* error at the check, having created no directory, opened no figure, drawn
\* nothing and written no file; a failed call does nothing more.
C2_RejectedBeforeSideEffects ==
    [][/\ (call = "segment_plotter" /\ pc = "check" /\ Violates(args, working_data.nseg))
          => /\ pc' = "failed" /\ err' = "AssertionError"
             /\ dirs' = dirs /\ figures' = 0 /\ images' = << >> /\ bands' = << >>
       /\ (call = "segment_plotter" /\ pc = "failed") => UNCHANGED vars]_vars

\* C2 witness: a call with end > S is refused although its path names a
\* directory that is absent and would have been created.
C2_Witness ==
    /\ call = "segment_plotter" /\ pc = "failed" /\ err = "AssertionError"
    /\ StepOk(args.step, working_data.nseg)
    /\ args.end # NoneValue /\ args.end[1] > working_data.nseg
    /\ args.path = OutDir /\ dirs = {}

\* C3: when an accepted call with start >= 0 has finished, the segments
\* visited are start, start+step, ... below end, in this order, and the k-th
\* of them is the file of counter k: the files are exactly 0 .. k-1.
C3_VisitsAndNumbersInOrder ==
    (/\ call = "segment_plotter" /\ Finished /\ WholeBatch
     /\ ~Violates(args, working_data.nseg) /\ args.start >= 0
     /\ IsDir(path, dirs))
    => /\ used = RangeSeq(args.start, EndOf(args, working_data.nseg), args.step)
       /\ images = Numbered(path, Len(used))

\* C4: for a non-empty path argument, when the loop is entered the path
\* written under ends with a separator and its directory exists.
C4_DirectoryReadyBeforeFirstWrite ==
    (call = "segment_plotter" /\ pc = "loop" /\ Len(args.path) > 0)
    => /\ path[Len(path)] \in {"/", "\\"}
       /\ IsDir(path, dirs)

\* C5: no figure opened during a segment_plotter run over whole batch
\* records is open when the run has finished.
C5_NoFigureLeftOpen ==
    (call = "segment_plotter" /\ Finished /\ WholeBatch) => figures = 0

\* C6: formatting neither prints nor touches the output file, an empty RR_list
\* ends it with the division error, and a failed report does nothing more: the
\* file is not created, truncated or written and nothing is printed.
C6_NoPartialReport ==
    [][/\ (call = "report" /\ pc = "format")
          => /\ outfh' = outfh /\ stdout' = stdout
             /\ ((working_data.RR_list = 0 /\ \A k \in 1..Len(measures) : IsNumber(measures[k][2]))
                 => pc' = "failed" /\ err' = "ZeroDivisionError")
       /\ (call = "report" /\ pc = "failed") => UNCHANGED vars]_vars

\* C6 witness: the division failed while an existing output file was named;
\* its old content is still there.
C6_Witness ==
    /\ call = "report" /\ pc = "failed" /\ err = "ZeroDivisionError"
    /\ args.outfile # NoneValue /\ outfh = OldContent /\ stdout = << >>
    /\ Len(measures) = MaxMetrics

\* C7: in CSV mode the report of n metrics is n+4 rows: the header
\* Measure,Value, and then rows that are a label and a numeric value each.
C7_CsvRows ==
    (call = "report" /\ args.csvfile /\ pc \in {"output", "done"})
    => /\ Len(out_str) = Len(measures) + 4
       /\ out_str[1] = <<"M","e","a","s","u","r","e",",","V","a","l","u","e">>
       /\ \A k \in 2..Len(out_str) :
             Len(Fields(out_str[k])) = 2 /\ IsNumericText(Fields(out_str[k])[2])

\* C8: the metric rows show 9 significant digits whenever an output file is
\* named and 3 whenever the report is printed, whatever csvfile is.
C8_PrecisionByDestination ==
    (call = "report" /\ pc \in {"output", "done"})
    => \A k \in 1..Len(measures) :
          SigDigits(MetricValueText(k)) = IF args.outfile # NoneValue THEN 9 ELSE 3

\* C9: the signal plot of a record with every key plotter needs, and of a
\* numeric bpm, raises nothing; with rejected_segments absent or malformed it draws no band, and
\* otherwise one band per interval.
C9_MalformedDrawsNothing ==
    (/\ call = "plotter" /\ Finished /\ PlotterKeys \subseteq DOMAIN working_data
     /\ HasKey(measures, BpmKey) /\ IsNumber(Get(measures, BpmKey)))
    => /\ err = "none"
       /\ IF "rejected_segments" \notin DOMAIN working_data \/ Malformed(working_data)
          THEN bands = << >>
          ELSE bands = working_data.rejected_segments.items

\* C10 as stated: whatever start is, every index used to subscript the
\* per-segment arrays lies in 0 .. S-1.
C10_IndexInRangeAnyStart ==
    call = "segment_plotter" => \A k \in 1..Len(used) : used[k] \in 0..(working_data.nseg - 1)

\* C10 amended: when start >= 0, every index the loop is to use, and every
\* index it has used, lies in 0 .. S-1.
C10_IndexInRangeFromZero ==
    (call = "segment_plotter" /\ args.start >= 0)
    => /\ \A k \in 1..Len(used) : used[k] \in 0..(working_data.nseg - 1)
       /\ \A k \in 1..Len(it) : it[k] \in 0..(working_data.nseg - 1)

\* C10 witness: a run from start = 1 in steps of 2 has used index 1 and has
\* more indices to go.
C10_Witness ==
    /\ call = "segment_plotter" /\ args.start = 1 /\ args.step = 2
    /\ used = <<1>> /\ Len(it) >= 2 /\ it[2] = 3

====
